---- MODULE Spec2Model ----
\* SkPaintParamsKeyBuilder / SkPaintParamsKey (src/core/SkPaintParamsKey.cpp).
\* Both builds are modelled. With SK_DEBUG every SkASSERT is a check that
\* aborts the process (recorded in the builder's "fault" field) and the
\* SkDEBUGCODE / #ifdef SK_DEBUG parts run; without it they are compiled out.
EXTENDS Integers, Sequences, FiniteSets, TLC

\* builder: the builder under test, reused over build cycles.
\* twin:    a second builder, constructed anew for every cycle and driven by
\*          the same calls.
\* key, twinKey: the key each lockAsKey returned, while it is alive.
\* SK_DEBUG: the build configuration.
\* lastCall, ret: the caller's last call and what it returned.
\* calls:   the caller's log of the current cycle.
\* cause:   the call of makeInvalid (by its line) that latched the builder
\*          invalid in this cycle, "none" if none did.
VARIABLES builder, twin, key, twinKey, SK_DEBUG, lastCall, ret, calls, cause

vars == << builder, twin, key, twinKey, SK_DEBUG, lastCall, ret, calls, cause >>

\* ---------------------------------------------------------------- bounds
\* beginBlock calls accepted in one build cycle
MaxBlocks == 2
\* addBytes calls accepted in one build cycle of a build without SK_DEBUG,
\* where no payload expectations limit them
MaxAdds == 1

\* ---------------------------------------------------------------- format constants
kBlockHeaderSizeInBytes == 2
kBlockSizeOffsetInBytes == 1
kMaxBlockSize == 255

\* SkBuiltInCodeSnippetID
kDepthStencilOnlyDraw == 0
kError == 1

\* ---------------------------------------------------------------- dictionary
\* SkShaderCodeDictionary: the snippets known to the builder and the decoder.
maxCodeSnippetID == 4

ByteField(n) == [fType |-> "kByte", fCount |-> n]

\* id 2: one child, then one byte.  id 3: a leaf with a 2-byte field.
\* id 4: a leaf whose block is exactly kMaxBlockSize bytes.
dataPayloadExpectations(id) ==
    CASE id = 2 -> << ByteField(1) >>
      [] id = 3 -> << ByteField(2) >>
      [] id = 4 -> << ByteField(253) >>
      [] OTHER  -> << >>

numChildren(id) == IF id = 2 THEN 1 ELSE 0

\* getEntry: the entry of a known id, or null
getEntry(id) ==
    IF id \in 0..maxCodeSnippetID
    THEN [null |-> FALSE, fID |-> id,
          fNumChildren |-> numChildren(id),
          fDataPayloadExpectations |-> dataPayloadExpectations(id)]
    ELSE [null |-> TRUE, fID |-> id,
          fNumChildren |-> 0,
          fDataPayloadExpectations |-> << >>]

\* ---------------------------------------------------------------- builder
Byte == 0..255

Back(s) == s[Len(s)]
PopBack(s) == SubSeq(s, 1, Len(s) - 1)

\* The state of a newly constructed builder (fDict and fBackend are fixed).
\* nMakeInvalid counts the entries into makeInvalid since the last reset.
NewBuilder ==
    [fData |-> << >>, fStack |-> << >>, fIsValid |-> TRUE, fLocked |-> 0,
     fault |-> "none", nMakeInvalid |-> 0]

sizeInBytes(b) == Len(b.fData)
isValid(b) == b.fIsValid
isLocked(b) == b.fLocked > 0
Aborted(b) == b.fault # "none"

\* A failed SkASSERT: the process aborts at that line, nothing else changes.
Fail(b, where) == [b EXCEPT !.fault = where]

\* SkASSERT(cond) fails: only a debug build evaluates it
Fails(cond) == SK_DEBUG /\ ~cond

\* a frame recording the offset of the size byte instead of the header's
StackFrame_OffByOne(id, offset, expectations, cur) ==
    [fCodeSnippetID |-> id, fHeaderOffset |-> offset + kBlockSizeOffsetInBytes,
     fDataPayloadExpectations |-> expectations, fCurDataPayloadEntry |-> cur]

StackFrame(id, offset, expectations, cur) ==
    [fCodeSnippetID |-> id, fHeaderOffset |-> offset,
     fDataPayloadExpectations |-> expectations, fCurDataPayloadEntry |-> cur]

kHeaderExpectations == << ByteField(1), ByteField(1) >>

\* checkReset: the four assertions, in order
checkReset(b) ==
    IF Aborted(b) THEN b
    ELSE IF Fails(~isLocked(b)) THEN Fail(b, "checkReset:23")
    ELSE IF Fails(sizeInBytes(b) = 0) THEN Fail(b, "checkReset:24")
    ELSE IF Fails(b.fIsValid) THEN Fail(b, "checkReset:25")
    ELSE IF Fails(b.fStack = << >>) THEN Fail(b, "checkReset:26")
    ELSE b

RECURSIVE makeInvalid(_)

\* addBytes with a block open, without the cross-check against the expected
\* field
addBytesToBlock_NoShapeCheck(b, numBytes, data) ==
    LET cur == Back(b.fStack).fCurDataPayloadEntry
        b1 == IF SK_DEBUG
              THEN [b EXCEPT !.fStack[Len(b.fStack)].fCurDataPayloadEntry = cur + 1]
              ELSE b
    IN  IF Fails(~isLocked(b1)) THEN Fail(b1, "addBytes:141")
        ELSE [b1 EXCEPT !.fData = @ \o SubSeq(data, 1, numBytes)]

\* addBytes with a block open: in a debug build the cross-check against the
\* expected field and the counter; the lock assertion; the append
addBytesToBlock(b, numBytes, data) ==
    LET frame == Back(b.fStack)
        expectations == frame.fDataPayloadExpectations
        cur == frame.fCurDataPayloadEntry
    IN  IF Fails(/\ cur < Len(expectations)
                 /\ expectations[cur + 1].fType = "kByte"
                 /\ expectations[cur + 1].fCount = numBytes)
        THEN Fail(b, "addBytes:132")
        ELSE LET b1 == IF SK_DEBUG
                       THEN [b EXCEPT !.fStack[Len(b.fStack)].fCurDataPayloadEntry =
                                          cur + 1]
                       ELSE b
             IN  IF Fails(~isLocked(b1)) THEN Fail(b1, "addBytes:141")
                 ELSE [b1 EXCEPT !.fData = @ \o SubSeq(data, 1, numBytes)]

\* addBytes without the test for an open block
addBytes_NoOpenBlockTest(b, numBytes, data) ==
    IF Aborted(b) THEN b
    ELSE IF ~isValid(b) THEN b
    ELSE IF b.fStack = << >> THEN [b EXCEPT !.fData = @ \o SubSeq(data, 1, numBytes)]
    ELSE addBytesToBlock(b, numBytes, data)

addBytes(b, numBytes, data) ==
    IF Aborted(b) THEN b
    ELSE IF ~isValid(b) THEN b
    ELSE IF b.fStack = << >> THEN makeInvalid(b)
    ELSE addBytesToBlock(b, numBytes, data)

addByte(b, data) == addBytes(b, 1, << data >>)

\* the range test without its lower bound
validSnippetID_NoLowerBound(codeSnippetID) == ~(codeSnippetID > maxCodeSnippetID)

\* The range test on the snippet id
validSnippetID(codeSnippetID) ==
    ~(codeSnippetID < 0 \/ codeSnippetID > maxCodeSnippetID)

\* beginBlock without the test of the parent's counter
pushBlock_NoParentCheck(b, codeSnippetID) ==
    IF Fails(~isLocked(b)) THEN Fail(b, "beginBlock:59")
    ELSE LET b1 == [b EXCEPT !.fStack =
                        Append(@, StackFrame(codeSnippetID, sizeInBytes(b),
                                             IF SK_DEBUG THEN kHeaderExpectations
                                             ELSE << >>, 0))]
             b2 == IF Fails(codeSnippetID \in Byte) THEN Fail(b1, "beginBlock:65")
                   ELSE addByte(b1, codeSnippetID % 256)
             b3 == addByte(b2, 0)
         IN  IF Aborted(b3) \/ ~SK_DEBUG THEN b3
             ELSE [b3 EXCEPT !.fStack[Len(b3.fStack)] =
                       StackFrame(codeSnippetID, sizeInBytes(b),
                                  dataPayloadExpectations(codeSnippetID), 0)]

\* beginBlock past the two early returns
pushBlock(b, codeSnippetID) ==
    IF b.fStack # << >> /\ Fails(Back(b.fStack).fCurDataPayloadEntry = 0)
    THEN Fail(b, "beginBlock:48")
    ELSE IF Fails(~isLocked(b)) THEN Fail(b, "beginBlock:59")
    ELSE LET b1 == [b EXCEPT !.fStack =
                        Append(@, StackFrame(codeSnippetID, sizeInBytes(b),
                                             IF SK_DEBUG THEN kHeaderExpectations
                                             ELSE << >>, 0))]
             \* SkTo<uint8_t>: asserts that the id fits a byte, then casts
             b2 == IF Fails(codeSnippetID \in Byte) THEN Fail(b1, "beginBlock:65")
                   ELSE addByte(b1, codeSnippetID % 256)
             b3 == addByte(b2, 0)
         IN  IF Aborted(b3) \/ ~SK_DEBUG THEN b3
             ELSE [b3 EXCEPT !.fStack[Len(b3.fStack)] =
                       StackFrame(codeSnippetID, sizeInBytes(b),
                                  dataPayloadExpectations(codeSnippetID), 0)]

\* beginBlock without the early return of an invalid builder
beginBlock_NoLatch(b, codeSnippetID) ==
    IF Aborted(b) THEN b
    ELSE IF ~validSnippetID(codeSnippetID) /\ isValid(b) THEN makeInvalid(b)
    ELSE pushBlock(b, codeSnippetID)

beginBlock(b, codeSnippetID) ==
    IF Aborted(b) THEN b
    ELSE IF ~isValid(b) THEN b
    ELSE IF ~validSnippetID(codeSnippetID) THEN makeInvalid(b)
    ELSE pushBlock(b, codeSnippetID)

\* the block size without its header
blockSizeAt_NoHeader(b, headerOffset) ==
    sizeInBytes(b) - headerOffset - kBlockHeaderSizeInBytes

\* int blockSize = this->sizeInBytes() - headerOffset
blockSizeAt(b, headerOffset) == sizeInBytes(b) - headerOffset

\* a limit one byte too strict
tooLarge_OffByOne(blockSize) == blockSize >= kMaxBlockSize

tooLarge(blockSize) == blockSize > kMaxBlockSize

\* endBlock with a block open
closeBlock(b) ==
    LET frame == Back(b.fStack)
        headerOffset == frame.fHeaderOffset
        blockSize == blockSizeAt(b, headerOffset)
    IN  IF Fails(frame.fCurDataPayloadEntry = Len(frame.fDataPayloadExpectations))
        THEN Fail(b, "endBlock:87")
        ELSE IF Fails(~isLocked(b)) THEN Fail(b, "endBlock:89")
        ELSE IF Fails(b.fData[headerOffset + 1] = frame.fCodeSnippetID)
        THEN Fail(b, "endBlock:93")
        ELSE IF Fails(b.fData[headerOffset + kBlockSizeOffsetInBytes + 1] = 0)
        THEN Fail(b, "endBlock:94")
        ELSE IF tooLarge(blockSize) THEN makeInvalid(b)
        ELSE LET b1 == [b EXCEPT
                          !.fData[headerOffset + kBlockSizeOffsetInBytes + 1] =
                              blockSize % 256,
                          !.fStack = PopBack(@)]
             IN  IF b1.fStack # << >> /\ Fails(Back(b1.fStack).fCurDataPayloadEntry = 0)
                 THEN Fail(b1, "endBlock:110")
                 ELSE b1

endBlock(b) ==
    IF Aborted(b) THEN b
    ELSE IF ~isValid(b) THEN b
    ELSE IF b.fStack = << >> THEN makeInvalid(b)
    ELSE closeBlock(b)

\* makeInvalid without the reset of the buffer
makeInvalid_KeepsData(b) ==
    IF Aborted(b) THEN b
    ELSE LET b0 == [b EXCEPT !.nMakeInvalid = @ + 1]
             b1 == [b0 EXCEPT !.fStack = << >>]
             b2 == beginBlock(b1, kError)
             b3 == endBlock(b2)
         IN  IF Fails(b.fIsValid) THEN Fail(b0, "makeInvalid:163")
             ELSE IF Fails(~isLocked(b)) THEN Fail(b0, "makeInvalid:164")
             ELSE IF Aborted(b3) THEN b3
             ELSE IF Fails(b3.fIsValid) THEN Fail(b3, "makeInvalid:171")
             ELSE [b3 EXCEPT !.fIsValid = FALSE]

makeInvalid(b) ==
    IF Aborted(b) THEN b
    ELSE LET b0 == [b EXCEPT !.nMakeInvalid = @ + 1]
             b1 == [b0 EXCEPT !.fStack = << >>, !.fData = << >>]
             b2 == beginBlock(b1, kError)
             b3 == endBlock(b2)
         IN  IF Fails(b.fIsValid) THEN Fail(b0, "makeInvalid:163")
             ELSE IF Fails(~isLocked(b)) THEN Fail(b0, "makeInvalid:164")
             ELSE IF Aborted(b3) THEN b3
             ELSE IF Fails(b3.fIsValid) THEN Fail(b3, "makeInvalid:171")
             ELSE [b3 EXCEPT !.fIsValid = FALSE]

\* ---------------------------------------------------------------- key
\* A key is a span and the builder it locks, if any. A span over a builder's
\* buffer is (buffer, count); a span over raw bytes carries the bytes.
NoKey == [alive |-> FALSE, fData |-> [buffer |-> FALSE, size |-> 0, bytes |-> << >>],
          fOriginatingBuilder |-> FALSE]

lock(b) == IF Aborted(b) THEN b ELSE [b EXCEPT !.fLocked = @ + 1]

\* unlock: the lock is released and the buffer rewound for the next cycle
unlock(b) ==
    IF Aborted(b) THEN b
    ELSE IF Fails(isLocked(b)) THEN Fail(b, "unlock")
    ELSE checkReset([b EXCEPT !.fLocked = @ - 1, !.fData = << >>])

SpanOfBuffer(b) == [buffer |-> TRUE, size |-> Len(b.fData), bytes |-> << >>]
SpanOfBytes(raw) == [buffer |-> FALSE, size |-> Len(raw), bytes |-> raw]

\* the constructor without the call of lock()
KeyFromBuilder_NoLock(span, b) ==
    << [alive |-> TRUE, fData |-> span, fOriginatingBuilder |-> TRUE], b >>

\* SkPaintParamsKey(span, originatingBuilder): the pair <<key, builder>>
KeyFromBuilder(span, b) ==
    << [alive |-> TRUE, fData |-> span, fOriginatingBuilder |-> TRUE], lock(b) >>

\* SkPaintParamsKey(rawData)
KeyFromRaw(rawData) ==
    [alive |-> TRUE, fData |-> SpanOfBytes(rawData), fOriginatingBuilder |-> FALSE]

\* the destructor without the call of unlock()
DestroyKey_NoUnlock(k, b) == b

\* ~SkPaintParamsKey: the builder afterwards
DestroyKey(k, b) == IF k.fOriginatingBuilder THEN unlock(b) ELSE b

\* The bytes a key views; b is the builder whose buffer a buffer span points
\* into. A read past the buffer's end yields 256, which is no byte.
KeyBytes(k, b) ==
    IF k.fData.buffer
    THEN [i \in 1..k.fData.size |-> IF i <= Len(b.fData) THEN b.fData[i] ELSE 256]
    ELSE k.fData.bytes

\* lockAsKey without the test of the frame stack
lockAsKeyCheck_Skipped(b) == b

\* lockAsKey poisoning an invalid builder again
lockAsKeyCheck_OnInvalid(b) ==
    IF b.fStack # << >> \/ ~b.fIsValid THEN makeInvalid(b) ELSE b

\* The stack test of lockAsKey, falling through
lockAsKeyCheck(b) == IF b.fStack # << >> THEN makeInvalid(b) ELSE b

\* lockAsKey rewinding the buffer along with the stack
lockAsKey_ClearsBuffer(b) ==
    LET b1 == lockAsKeyCheck(b)
    IN  IF Aborted(b1) THEN << NoKey, b1 >>
        ELSE IF Fails(~isLocked(b1)) THEN << NoKey, Fail(b1, "lockAsKey:152") >>
        ELSE LET b2 == [b1 EXCEPT !.fIsValid = TRUE, !.fStack = << >>, !.fData = << >>]
             IN  KeyFromBuilder(SpanOfBuffer(b2), b2)

\* lockAsKey: the pair <<key, builder>>; no key when an assertion aborts
lockAsKey(b) ==
    LET b1 == lockAsKeyCheck(b)
    IN  IF Aborted(b1) THEN << NoKey, b1 >>
        ELSE IF Fails(~isLocked(b1)) THEN << NoKey, Fail(b1, "lockAsKey:152") >>
        ELSE LET b2 == [b1 EXCEPT !.fIsValid = TRUE, !.fStack = << >>]
             IN  KeyFromBuilder(SpanOfBuffer(b2), b2)

\* memcmp(a, b, n) over the first n bytes: 0 when they agree, else the sign of
\* the first difference
memcmp(a, b, n) ==
    LET differ == { i \in 1..n : a[i] # b[i] }
        first == CHOOSE i \in differ : \A j \in differ : i <= j
    IN  IF differ = {} THEN 0
        ELSE IF a[first] < b[first] THEN -1 ELSE 1

\* operator== comparing the sizes alone
KeyEquals_SizeOnly(this, that) == Len(this) = Len(that)

\* operator== on the bytes the two keys view
KeyEquals(this, that) ==
    Len(this) = Len(that) /\ memcmp(this, that, Len(this)) = 0

\* isErrorKey on the bytes the key views
isErrorKey(keyBytes) ==
    /\ Len(keyBytes) = kBlockHeaderSizeInBytes
    /\ keyBytes[1] = kError
    /\ keyBytes[2] = kBlockHeaderSizeInBytes

\* ---------------------------------------------------------------- decoding
\* SkShaderInfo: the entries added, the writes-color mark, and how the walk ended
\* ("ok", or the undefined behaviour / failed assertion that stopped it)
NewShaderInfo == [entries |-> << >>, writesColor |-> FALSE, status |-> "ok"]

add(result, entry) == [result EXCEPT !.entries = Append(@, entry.fID)]
setWritesColor(result) == [result EXCEPT !.writesColor = TRUE]
Stop(result, why) == [result EXCEPT !.status = why]

\* the mark set for every block
markBlock_Always(result, codeSnippetID) == setWritesColor(result)

\* lines 288-290
markBlock(result, codeSnippetID) ==
    IF codeSnippetID # kDepthStencilOnlyDraw THEN setWritesColor(result) ELSE result

\* int childOffset = headerOffset + kBlockHeaderSizeInBytes
firstChildOffset(headerOffset) == headerOffset + kBlockHeaderSizeInBytes

RECURSIVE AddBlockToShaderInfo(_, _, _)
RECURSIVE addChildren(_, _, _, _, _, _)

\* the loop over entry->fNumChildren; i children are still to be visited
addChildren(keyBytes, headerOffset, blockSize, childOffset, i, result) ==
    IF i = 0 \/ result.status # "ok" THEN result
    ELSE IF Fails(childOffset < headerOffset + blockSize) THEN Stop(result, "assert:282")
    ELSE LET c == AddBlockToShaderInfo(keyBytes, childOffset, result)
         IN  addChildren(keyBytes, headerOffset, blockSize,
                         childOffset + c.blockSize, i - 1, c.result)

\* the entry added after the children instead of before them
AddBlockToShaderInfo_PostOrder(keyBytes, headerOffset, result) ==
    IF headerOffset + kBlockHeaderSizeInBytes > Len(keyBytes)
    THEN [result |-> Stop(result, "outOfBounds"), blockSize |-> 0]
    ELSE LET codeSnippetID == keyBytes[headerOffset + 1]
             blockSize == keyBytes[headerOffset + kBlockSizeOffsetInBytes + 1]
             entry == getEntry(codeSnippetID)
         IN  IF entry.null
             THEN [result |-> Stop(result, "nullEntry"), blockSize |-> blockSize]
             ELSE LET r2 == addChildren(keyBytes, headerOffset, blockSize,
                                        firstChildOffset(headerOffset),
                                        entry.fNumChildren, result)
                  IN  [result |-> IF r2.status = "ok"
                                  THEN markBlock(add(r2, entry), codeSnippetID) ELSE r2,
                       blockSize |-> blockSize]

\* [result, blockSize]; a header read outside the key is "outOfBounds", a use
\* of a null entry is "nullEntry"
AddBlockToShaderInfo(keyBytes, headerOffset, result) ==
    IF headerOffset + kBlockHeaderSizeInBytes > Len(keyBytes)
    THEN [result |-> Stop(result, "outOfBounds"), blockSize |-> 0]
    ELSE LET codeSnippetID == keyBytes[headerOffset + 1]
             blockSize == keyBytes[headerOffset + kBlockSizeOffsetInBytes + 1]
             entry == getEntry(codeSnippetID)
         IN  IF entry.null
             THEN [result |-> Stop(result, "nullEntry"), blockSize |-> blockSize]
             ELSE LET r1 == add(result, entry)
                      r2 == addChildren(keyBytes, headerOffset, blockSize,
                                        firstChildOffset(headerOffset),
                                        entry.fNumChildren, r1)
                  IN  [result |-> IF r2.status = "ok"
                                  THEN markBlock(r2, codeSnippetID) ELSE r2,
                       blockSize |-> blockSize]

\* the while loop of toShaderInfo; a block size of 0 never advances ("hang")
RECURSIVE toShaderInfoFrom(_, _, _)
toShaderInfoFrom(keyBytes, curHeaderOffset, result) ==
    IF result.status # "ok" \/ ~(curHeaderOffset < Len(keyBytes)) THEN result
    ELSE LET r == AddBlockToShaderInfo(keyBytes, curHeaderOffset, result)
         IN  IF r.result.status = "ok" /\ r.blockSize = 0 THEN Stop(r.result, "hang")
             ELSE toShaderInfoFrom(keyBytes, curHeaderOffset + r.blockSize, r.result)

toShaderInfo(keyBytes, result) == toShaderInfoFrom(keyBytes, 0, result)

\* ---------------------------------------------------------------- dump
\* What dump has printed, line by line, and how the walk ended. A line is
\* [kind, indent, a, b]: "key" (a bytes), "unknown" (a bytes), "block" (the
\* name of entry a, b bytes), "child" (index a), "field" (a bytes), "byte"
\* (value a).
NewDump == [out |-> << >>, status |-> "ok"]

Line(kind, indent, a, b) == [kind |-> kind, indent |-> indent, a |-> a, b |-> b]

SkDebugf(d, line) == [d EXCEPT !.out = Append(@, line)]

\* What the use of a null entry at line 224 does: the process stops, or it
\* goes on and whatever lies at the address is taken for an entry.
NullEntryOutcomes == { "crash", "garbage" }

\* the entry read through the null pointer when the process goes on: a name
\* that is no entry's, and no child or field to walk
garbageEntry ==
    [null |-> TRUE, fID |-> -1, fNumChildren |-> 0,
     fDataPayloadExpectations |-> << >>]

RECURSIVE dump_block(_, _, _, _, _)
RECURSIVE dumpChildren(_, _, _, _, _, _, _)
RECURSIVE dumpPayload(_, _, _, _, _, _)

\* the loop over entry->fNumChildren, from child i; [d, curOffset]
dumpChildren(keyBytes, curOffset, indent, n, i, g, d) ==
    IF i >= n \/ d.status # "ok" THEN [d |-> d, curOffset |-> curOffset]
    ELSE LET c == dump_block(keyBytes, curOffset, indent + 1, g,
                             SkDebugf(d, Line("child", indent, i, 0)))
         IN  dumpChildren(keyBytes, curOffset + c.blockSize, indent, n, i + 1, g, c.d)

\* the loop over entry->fDataPayloadExpectations, from field k
dumpPayload(keyBytes, curOffset, indent, expectations, k, d) ==
    IF k > Len(expectations) \/ d.status # "ok" THEN d
    ELSE LET e == expectations[k]
             d1 == SkDebugf(d, Line("field", indent, e.fCount, 0))
             left == IF curOffset < Len(keyBytes) THEN Len(keyBytes) - curOffset ELSE 0
             n == IF e.fCount <= left THEN e.fCount ELSE left
             d2 == [d1 EXCEPT !.out =
                        @ \o [i \in 1..n |->
                                 Line("byte", indent, keyBytes[curOffset + i], 0)]]
         IN  IF Fails(e.fType = "kByte") THEN Stop(d1, "assert:241")
             ELSE IF n < e.fCount THEN Stop(d2, "outOfBounds")
             ELSE dumpPayload(keyBytes, curOffset + e.fCount, indent,
                              expectations, k + 1, d2)

\* [d, blockSize]; a byte read outside the key is "outOfBounds", a stop at the
\* use of a null entry is "nullEntry"
dump_block(keyBytes, headerOffset, indent, g, d) ==
    IF headerOffset + kBlockHeaderSizeInBytes > Len(keyBytes)
    THEN [d |-> Stop(d, "outOfBounds"), blockSize |-> 0]
    ELSE LET id == keyBytes[headerOffset + 1]
             blockSize == keyBytes[headerOffset + 2]
             entry == getEntry(id)
             d1 == IF entry.null
                   THEN SkDebugf(d, Line("unknown", indent, blockSize, 0))
                   ELSE d
             used == IF entry.null THEN garbageEntry ELSE entry
             d2 == SkDebugf(d1, Line("block", indent, used.fID, blockSize))
             ch == dumpChildren(keyBytes, headerOffset + kBlockHeaderSizeInBytes,
                                indent, used.fNumChildren, 0, g, d2)
         IN  IF Fails(blockSize >= 2 /\ headerOffset + blockSize <= Len(keyBytes))
             THEN [d |-> Stop(d, "assert:215"), blockSize |-> blockSize]
             ELSE IF entry.null /\ g = "crash"
             THEN [d |-> Stop(d1, "nullEntry"), blockSize |-> blockSize]
             ELSE [d |-> dumpPayload(keyBytes, ch.curOffset, indent,
                                     used.fDataPayloadExpectations, 1, ch.d),
                   blockSize |-> blockSize]

\* the while loop of dump
RECURSIVE dumpFrom(_, _, _, _)
dumpFrom(keyBytes, curHeaderOffset, g, d) ==
    IF d.status # "ok" \/ ~(curHeaderOffset < Len(keyBytes)) THEN d
    ELSE LET r == dump_block(keyBytes, curHeaderOffset, 0, g, d)
         IN  dumpFrom(keyBytes, curHeaderOffset + r.blockSize, g, r.d)

dump(keyBytes, g) ==
    dumpFrom(keyBytes, 0, g, SkDebugf(NewDump, Line("key", 0, Len(keyBytes), 0)))

\* ---------------------------------------------------------------- inputs
\* the ids callers pass: the known ones but kError, which is the builder's
\* own, and one on either side of the range
SnippetIDs == (-1..(maxCodeSnippetID + 1)) \ { kError }

Fill(n) == [i \in 1..n |-> 7]

\* the (data, numBytes = Len(data)) arguments of addBytes
Payloads == { << 9 >>, << 1, 2 >>, Fill(253), Fill(254) }

\* raw bytes a key is wrapped around
\* raw keys for dump: a block of an id the dictionary has no entry for, alone
\* and followed by a sibling
UnknownKeys == { << maxCodeSnippetID + 1, 2 >>,
                 << maxCodeSnippetID + 1, 2, kDepthStencilOnlyDraw, 2 >> }

RawKeys == { << kDepthStencilOnlyDraw, 2 >>, << 3, 4, 1, 3 >> }

\* ---------------------------------------------------------------- call log
\* The calls of the current build cycle, kept by the caller: ok is FALSE once
\* the sequence is not a well-formed one (an id out of range, an addBytes or
\* endBlock outside every block, a block over kMaxBlockSize bytes, a lockAsKey
\* inside a block); the log is then dropped.
Call(op, id, data) == [op |-> op, id |-> id, data |-> data]

NoCalls == [ok |-> TRUE, log |-> << >>]
IllFormed == [ok |-> FALSE, log |-> << >>]

IsBegin(c) == c.op = "beginBlock"
IsEnd(c) == c.op = "endBlock"
IsAdd(c) == c.op = "addBytes"

NumBegins(log) == Cardinality({ i \in 1..Len(log) : IsBegin(log[i]) })
NumAdds(log) == Cardinality({ i \in 1..Len(log) : IsAdd(log[i]) })
NumEnds(log) == Cardinality({ i \in 1..Len(log) : IsEnd(log[i]) })
Depth(log) == NumBegins(log) - NumEnds(log)

\* the index of the endBlock that closes the block begun at i (0: still open)
RECURSIVE MatchFrom(_, _, _)
MatchFrom(log, k, d) ==
    IF k > Len(log) THEN 0
    ELSE IF IsBegin(log[k]) THEN MatchFrom(log, k + 1, d + 1)
    ELSE IF IsEnd(log[k]) THEN IF d = 1 THEN k ELSE MatchFrom(log, k + 1, d - 1)
    ELSE MatchFrom(log, k + 1, d)

Match(log, i) == MatchFrom(log, i + 1, 1)

\* the index of the beginBlock whose block the endBlock at j closes (0: none)
RECURSIVE OpenFrom(_, _, _)
OpenFrom(log, k, d) ==
    IF k < 1 THEN 0
    ELSE IF IsEnd(log[k]) THEN OpenFrom(log, k - 1, d + 1)
    ELSE IF IsBegin(log[k]) THEN IF d = 1 THEN k ELSE OpenFrom(log, k - 1, d - 1)
    ELSE OpenFrom(log, k - 1, d)

OpenOf(log, j) == OpenFrom(log, j - 1, 1)

\* The size the format gives the block begun at i and closed in the log:
\* 2 + the sizes of its immediate children + its payload bytes.
RECURSIVE RefSize(_, _)
RECURSIVE RefSizeItems(_, _, _)
RefSizeItems(log, k, m) ==
    IF k >= m THEN 0
    ELSE IF IsBegin(log[k])
         THEN RefSize(log, k) + RefSizeItems(log, Match(log, k) + 1, m)
         ELSE Len(log[k].data) + RefSizeItems(log, k + 1, m)

RefSize(log, i) == 2 + RefSizeItems(log, i + 1, Match(log, i))

\* Is the log, whose calls before the last are well-formed, still well-formed?
LastCallOK(log) ==
    LET n == Len(log)
        c == log[n]
        before == SubSeq(log, 1, n - 1)
    IN  CASE IsBegin(c) -> c.id \in 0..maxCodeSnippetID
          [] IsAdd(c)   -> Depth(before) > 0
          [] IsEnd(c)   -> Depth(before) > 0 /\ RefSize(log, OpenOf(log, n)) <= kMaxBlockSize
          [] OTHER      -> FALSE

Logged(cs, c) ==
    IF ~cs.ok THEN cs
    ELSE IF LastCallOK(Append(cs.log, c))
         THEN [ok |-> TRUE, log |-> Append(cs.log, c)]
         ELSE IllFormed

Finalized(cs) == IF cs.ok /\ Depth(cs.log) # 0 THEN IllFormed ELSE cs

\* ---------------------------------------------------------------- state
NoRet == [equal |-> FALSE, info |-> NewShaderInfo, dump |-> NewDump]

Init ==
    /\ builder = NewBuilder
    /\ twin = NewBuilder
    /\ key = NoKey
    /\ twinKey = NoKey
    /\ lastCall = Call("none", 0, << >>)
    /\ ret = NoRet
    /\ SK_DEBUG \in BOOLEAN
    /\ calls = NoCalls
    /\ cause = "none"

Running == ~Aborted(builder) /\ ~Aborted(twin)

\* The caller may make a building call or call lockAsKey: always in a debug
\* build, where the assertions answer a call made while a key is alive;
\* without SK_DEBUG nothing checks that contract, the behaviour of such a
\* call is undefined, and the caller keeps to it.
MayBuild == Running /\ (SK_DEBUG \/ ~key.alive)

\* the caller's log while a cycle is open; a call made while a key is alive
\* belongs to no cycle
LogCall(c) == calls' = IF key.alive THEN calls ELSE Logged(calls, c)

\* the builder was valid and the call latched it invalid at that line
Latched(line) ==
    cause' = IF builder.fIsValid /\ ~Aborted(builder') /\ ~builder'.fIsValid
             THEN line ELSE cause

\* room for one more block within the bound
Room ==
    IF calls.ok THEN NumBegins(calls.log) < MaxBlocks
    ELSE Len(builder.fStack) < MaxBlocks

\* room for one more addBytes within the bound
RoomForBytes ==
    \/ SK_DEBUG
    \/ IF calls.ok THEN NumAdds(calls.log) < MaxAdds ELSE Len(builder.fData) <= 2

BeginBlock(id) ==
    /\ MayBuild
    /\ Room
    /\ builder' = beginBlock(builder, id)
    /\ twin' = beginBlock(twin, id)
    /\ lastCall' = Call("beginBlock", id, << >>)
    /\ LogCall(lastCall')
    /\ Latched("line41")
    /\ ret' = NoRet
    /\ UNCHANGED << key, twinKey, SK_DEBUG >>

AddBytes(data) ==
    /\ MayBuild
    /\ RoomForBytes
    /\ builder' = addBytes(builder, Len(data), data)
    /\ twin' = addBytes(twin, Len(data), data)
    /\ lastCall' = Call("addBytes", 0, data)
    /\ LogCall(lastCall')
    /\ Latched("line122")
    /\ ret' = NoRet
    /\ UNCHANGED << key, twinKey, SK_DEBUG >>

EndBlock ==
    /\ MayBuild
    /\ builder' = endBlock(builder)
    /\ twin' = endBlock(twin)
    /\ lastCall' = Call("endBlock", 0, << >>)
    /\ LogCall(lastCall')
    /\ Latched(IF builder.fStack = << >> THEN "line82" ELSE "line99")
    /\ ret' = NoRet
    /\ UNCHANGED << key, twinKey, SK_DEBUG >>

\* lockAsKey; a call that aborts returns no key and leaves the live one alone
LockAsKey ==
    /\ MayBuild
    /\ LET r == lockAsKey(builder)
           t == lockAsKey(twin)
       IN  /\ builder' = r[2]
           /\ twin' = t[2]
           /\ key' = IF Aborted(r[2]) THEN key ELSE r[1]
           /\ twinKey' = IF Aborted(t[2]) THEN twinKey ELSE t[1]
    /\ lastCall' = Call("lockAsKey", 0, << >>)
    /\ calls' = IF key.alive THEN calls ELSE Finalized(calls)
    /\ cause' = IF builder.fStack # << >> /\ ~Aborted(builder') THEN "line149" ELSE cause
    /\ ret' = NoRet
    /\ UNCHANGED SK_DEBUG

\* The keys of the cycle are destroyed; the twin, no longer needed, is
\* replaced by a new builder, and the count of makeInvalid entries starts
\* again. The call is recorded with the bytes of the key
\* when it was the error key.
DestroyKeys ==
    /\ Running
    /\ key.alive
    /\ builder' = [DestroyKey(key, builder) EXCEPT !.nMakeInvalid = 0]
    /\ twin' = LET t == DestroyKey(twinKey, twin)
               IN  IF Aborted(t) THEN t ELSE NewBuilder
    /\ key' = NoKey
    /\ twinKey' = NoKey
    /\ lastCall' = Call("destroy", 0,
                        IF isErrorKey(KeyBytes(key, builder))
                        THEN KeyBytes(key, builder) ELSE << >>)
    /\ ret' = NoRet
    /\ calls' = NoCalls
    /\ cause' = "none"
    /\ UNCHANGED SK_DEBUG

\* The caller has the key lockAsKey returned and has not read it yet. The
\* three reads change nothing the builder or the key holds, so one read of a
\* key reaches every result.
Unread == Running /\ key.alive /\ lastCall.op = "lockAsKey"

\* key == SkPaintParamsKey(raw): a key is wrapped around raw bytes, compared
\* and destroyed
EqualsRaw(raw) ==
    /\ Unread
    /\ LET that == KeyFromRaw(raw)
       IN  /\ ret' = [NoRet EXCEPT !.equal =
                          KeyEquals(KeyBytes(key, builder), KeyBytes(that, builder))]
           /\ builder' = DestroyKey(that, builder)
    /\ lastCall' = Call("equalsRaw", 0, raw)
    /\ UNCHANGED << twin, key, twinKey, SK_DEBUG, calls, cause >>

\* key == twinKey
EqualsTwin ==
    /\ Unread
    /\ twinKey.alive
    /\ ret' = [NoRet EXCEPT !.equal =
                   KeyEquals(KeyBytes(key, builder), KeyBytes(twinKey, twin))]
    /\ lastCall' = Call("equalsTwin", 0, << >>)
    /\ UNCHANGED << builder, twin, key, twinKey, SK_DEBUG, calls, cause >>

\* key.toShaderInfo(dict, &result) with a new SkShaderInfo
ToShaderInfo ==
    /\ Unread
    /\ ret' = [NoRet EXCEPT !.info = toShaderInfo(KeyBytes(key, builder), NewShaderInfo)]
    /\ lastCall' = Call("toShaderInfo", 0, << >>)
    /\ UNCHANGED << builder, twin, key, twinKey, SK_DEBUG, calls, cause >>

\* key.dump(dict), which exists with SK_DEBUG only
Dump ==
    /\ Unread
    /\ SK_DEBUG
    /\ \E g \in NullEntryOutcomes :
          ret' = [NoRet EXCEPT !.dump = dump(KeyBytes(key, builder), g)]
    /\ lastCall' = Call("dump", 0, << >>)
    /\ UNCHANGED << builder, twin, key, twinKey, SK_DEBUG, calls, cause >>

\* SkPaintParamsKey(raw).dump(dict): between two cycles, a key is wrapped
\* around raw bytes, dumped and destroyed
DumpRaw(raw) ==
    /\ Running
    /\ SK_DEBUG
    /\ ~key.alive
    /\ lastCall.op \in { "none", "destroy" }
    /\ LET that == KeyFromRaw(raw)
       IN  /\ \E g \in NullEntryOutcomes :
                 ret' = [NoRet EXCEPT !.dump = dump(KeyBytes(that, builder), g)]
           /\ builder' = DestroyKey(that, builder)
    /\ lastCall' = Call("dumpRaw", 0, raw)
    /\ UNCHANGED << twin, key, twinKey, SK_DEBUG, calls, cause >>

Next ==
    \/ \E id \in SnippetIDs : BeginBlock(id)
    \/ \E data \in Payloads : AddBytes(data)
    \/ EndBlock
    \/ LockAsKey
    \/ DestroyKeys
    \/ \E raw \in RawKeys : EqualsRaw(raw)
    \/ EqualsTwin
    \/ ToShaderInfo
    \/ Dump
    \/ \E raw \in UnknownKeys : DumpRaw(raw)

Spec == Init /\ [][Next]_vars

\* ---------------------------------------------------------------- claims
BuildingOps == { "beginBlock", "addBytes", "endBlock" }

ErrorBlock == << kError, 2 >>

\* the builder can take a call: it runs, is valid and holds no lock
Open == Running /\ builder.fIsValid /\ ~isLocked(builder)

\* C1 (poison latch): once the validity flag is false, a beginBlock, addBytes
\* or endBlock call changes neither the buffer nor the frame stack nor the
\* flag, and the key the next lockAsKey returns is the 2-byte error key
\* [kError, 2].
C1_PoisonLatch ==
    [][ (Running /\ ~builder.fIsValid) =>
          /\ lastCall'.op \in BuildingOps =>
                /\ builder'.fData = builder.fData
                /\ builder'.fStack = builder.fStack
                /\ ~builder'.fIsValid
                /\ ~Aborted(builder')
          /\ lastCall'.op = "lockAsKey" =>
                /\ key'.alive
                /\ KeyBytes(key', builder') = ErrorBlock
                /\ isErrorKey(KeyBytes(key', builder')) ]_vars

\* C1 witness: a beginBlock with a known id, which never latches the builder
\* itself, has been ignored by an invalid builder holding the error block.
C1_Witness ==
    /\ ~builder.fIsValid
    /\ lastCall.op = "beginBlock"
    /\ lastCall.id = 3
    /\ builder.fData = ErrorBlock
    /\ builder.fStack = << >>

\* The reference encoding of a balanced log: the top-level blocks back to
\* back; a block is [id, size], its child blocks in build order, then its
\* payload bytes in the order added.
RECURSIVE RefBlock(_, _)
RECURSIVE RefChildren(_, _, _)
RECURSIVE RefPayload(_, _, _)
RefChildren(log, k, m) ==
    IF k >= m THEN << >>
    ELSE IF IsBegin(log[k])
         THEN RefBlock(log, k) \o RefChildren(log, Match(log, k) + 1, m)
         ELSE RefChildren(log, k + 1, m)

RefPayload(log, k, m) ==
    IF k >= m THEN << >>
    ELSE IF IsBegin(log[k]) THEN RefPayload(log, Match(log, k) + 1, m)
    ELSE log[k].data \o RefPayload(log, k + 1, m)

RefBlock(log, i) ==
    << log[i].id, RefSize(log, i) >>
        \o RefChildren(log, i + 1, Match(log, i))
        \o RefPayload(log, i + 1, Match(log, i))

RefKey(log) == RefChildren(log, 1, Len(log) + 1)

\* C2 as stated: the key finalized from any well-formed call sequence
\* (balanced, ids in range, no block over 255 bytes) on a reset builder holds
\* the reference encoding of that sequence.
C2_AsStated ==
    (key.alive /\ calls.ok) => KeyBytes(key, builder) = RefKey(calls.log)

\* no block is begun inside a block that has already been given payload
ChildrenFirst(log) ==
    \A k \in 1..Len(log) :
        IsBegin(log[k]) =>
            LET p == OpenOf(log, k)
            IN  \A j \in (p + 1)..(k - 1) : IsAdd(log[j]) => OpenOf(log, j) # p

\* C2 (serialization, amended): the key finalized from a well-formed call
\* sequence in which every block's child blocks are begun and ended before
\* the block is given any payload holds the reference encoding of that
\* sequence.
C2_Serialization ==
    (key.alive /\ calls.ok /\ ChildrenFirst(calls.log)) =>
        KeyBytes(key, builder) = RefKey(calls.log)

\* C2 witness: block 2 with child (3, payload 1,2) and payload 9.
C2_Witness ==
    /\ key.alive
    /\ calls.ok
    /\ calls.log = << Call("beginBlock", 2, << >>), Call("beginBlock", 3, << >>),
                      Call("addBytes", 0, << 1, 2 >>), Call("endBlock", 0, << >>),
                      Call("addBytes", 0, << 9 >>), Call("endBlock", 0, << >>) >>
    /\ ChildrenFirst(calls.log)
    /\ KeyBytes(key, builder) = << 2, 7, 3, 4, 1, 2, 9 >>

\* the total size (header + children + payload) of the innermost open block
\* of the log, were it closed now
OpenBlockTotal(log) ==
    LET closed == Append(log, Call("endBlock", 0, << >>))
    IN  RefSize(closed, OpenOf(closed, Len(closed)))

\* C3 (size boundary): an endBlock that passes the checks of the payload
\* shape closes a block of at most 255 bytes in total (size byte patched,
\* frame popped, builder still valid) and rejects one of 256 bytes or more
\* (builder invalid, nothing in the buffer but the error block), at any depth.
C3_SizeBoundary ==
    [][ (Open /\ calls.ok /\ builder.fStack # << >>
         /\ lastCall'.op = "endBlock" /\ ~Aborted(builder')) =>
          LET total == OpenBlockTotal(calls.log)
              headerOffset == Back(builder.fStack).fHeaderOffset
          IN  /\ total <= 255 =>
                    /\ builder'.fIsValid
                    /\ builder'.fStack = PopBack(builder.fStack)
                    /\ builder'.fData =
                           [builder.fData EXCEPT ![headerOffset + 2] = total]
              /\ total >= 256 =>
                    /\ ~builder'.fIsValid
                    /\ builder'.fStack = << >>
                    /\ builder'.fData = ErrorBlock ]_vars

\* C3 witness: a child block of exactly 255 bytes has been closed inside an
\* open parent.
C3_Witness ==
    /\ builder.fIsValid
    /\ lastCall.op = "endBlock"
    /\ Len(builder.fStack) = 1
    /\ Len(builder.fData) = 257
    /\ builder.fData[4] = 255

\* a block over kMaxBlockSize bytes has been rejected
C3_Rejected256 ==
    /\ ~builder.fIsValid
    /\ cause = "line99"
    /\ lastCall.op = "endBlock"
    /\ builder.fData = ErrorBlock

\* C4 (unbalanced detection): on a valid builder, endBlock with an empty frame
\* stack makes the builder invalid, and lockAsKey with a non-empty frame
\* stack returns the error key [kError, 2] instead of closing the open blocks.
C4_Unbalanced ==
    [][ Open =>
          /\ (lastCall'.op = "endBlock" /\ builder.fStack = << >>) =>
                /\ ~Aborted(builder')
                /\ ~builder'.fIsValid
          /\ (lastCall'.op = "lockAsKey" /\ builder.fStack # << >>) =>
                /\ ~Aborted(builder')
                /\ key'.alive
                /\ KeyBytes(key', builder') = ErrorBlock ]_vars

\* C4 witness: lockAsKey inside an open block has returned the error key.
C4_Witness ==
    /\ key.alive
    /\ cause = "line149"
    /\ lastCall.op = "lockAsKey"
    /\ KeyBytes(key, builder) = ErrorBlock

\* an endBlock outside every block has latched the builder
C4_UnmatchedEnd ==
    /\ ~builder.fIsValid
    /\ cause = "line82"
    /\ lastCall.op = "endBlock"

\* C5 (invalid snippet id): on a valid builder, beginBlock(id) with id < 0 or
\* id > maxCodeSnippetID leaves no frame and no header for id: the builder is
\* invalid, its frame stack empty and its buffer the error block, whatever
\* was open before.
C5_InvalidSnippetID ==
    [][ (Open /\ lastCall'.op = "beginBlock"
         /\ (lastCall'.id < 0 \/ lastCall'.id > maxCodeSnippetID)) =>
          /\ ~Aborted(builder')
          /\ ~builder'.fIsValid
          /\ builder'.fStack = << >>
          /\ builder'.fData = ErrorBlock ]_vars

\* C5 witness: beginBlock(-1) has latched a valid builder.
C5_Witness ==
    /\ ~builder.fIsValid
    /\ cause = "line41"
    /\ lastCall.op = "beginBlock"
    /\ lastCall.id = -1
    /\ builder.fStack = << >>
    /\ builder.fData = ErrorBlock

\* C6 (misplaced payload): on a valid builder with an empty frame stack,
\* addBytes appends none of its bytes and makes the builder invalid; the
\* blocks completed before are gone, the buffer is the error block.
C6_MisplacedPayload ==
    [][ (Open /\ builder.fStack = << >> /\ lastCall'.op = "addBytes") =>
          /\ ~Aborted(builder')
          /\ ~builder'.fIsValid
          /\ builder'.fStack = << >>
          /\ builder'.fData = ErrorBlock ]_vars

\* C6 witness: an addBytes outside every block has latched the builder.
C6_Witness ==
    /\ ~builder.fIsValid
    /\ cause = "line122"
    /\ lastCall.op = "addBytes"
    /\ lastCall.data = << 1, 2 >>
    /\ builder.fData = ErrorBlock

\* same length and the same byte at every index
SameBytes(a, b) == Len(a) = Len(b) /\ \A i \in 1..Len(a) : a[i] = b[i]

DifferingIndexes(a, b) == { i \in 1..Len(a) : a[i] # b[i] }

\* C7 (key equality and determinism): operator== holds iff the two keys have
\* the same length and the same byte at every index, for a key of a builder
\* against a key of raw bytes and against the key of the twin builder; and
\* the keys of two builders driven by the same calls are equal.
C7_Equality ==
    /\ lastCall.op = "equalsRaw" =>
          (ret.equal <=> SameBytes(KeyBytes(key, builder), lastCall.data))
    /\ lastCall.op = "equalsTwin" =>
          /\ ret.equal <=> SameBytes(KeyBytes(key, builder), KeyBytes(twinKey, twin))
          /\ ret.equal

\* C7 witness: a key of the builder and a raw key of the same length that
\* differ in one byte have been found unequal.
C7_Witness ==
    /\ lastCall.op = "equalsRaw"
    /\ key.alive
    /\ Len(KeyBytes(key, builder)) = Len(lastCall.data)
    /\ Cardinality(DifferingIndexes(KeyBytes(key, builder), lastCall.data)) = 1
    /\ ~ret.equal

\* the key of the builder has been found equal to that of the twin
C7_EqualsTwin ==
    /\ lastCall.op = "equalsTwin"
    /\ ret.equal
    /\ Len(KeyBytes(key, builder)) > 2

\* the ids passed to beginBlock, in call order
RECURSIVE BeginIDs(_)
BeginIDs(log) ==
    IF log = << >> THEN << >>
    ELSE IF IsBegin(Head(log)) THEN << Head(log).id >> \o BeginIDs(Tail(log))
    ELSE BeginIDs(Tail(log))

\* the number of blocks begun directly inside a block
RECURSIVE NumChildBlocks(_, _, _)
NumChildBlocks(log, k, m) ==
    IF k >= m THEN 0
    ELSE IF IsBegin(log[k]) THEN 1 + NumChildBlocks(log, Match(log, k) + 1, m)
    ELSE NumChildBlocks(log, k + 1, m)

\* the sizes of the addBytes calls directly inside a block, in order
RECURSIVE PayloadSizes(_, _, _)
PayloadSizes(log, k, m) ==
    IF k >= m THEN << >>
    ELSE IF IsBegin(log[k]) THEN PayloadSizes(log, Match(log, k) + 1, m)
    ELSE << Len(log[k].data) >> \o PayloadSizes(log, k + 1, m)

DeclaredSizes(id) ==
    [i \in 1..Len(dataPayloadExpectations(id)) |-> dataPayloadExpectations(id)[i].fCount]

\* every block of the balanced log has the child count and the payload fields
\* its entry declares, children before payload
MatchesSchema(log) ==
    /\ ChildrenFirst(log)
    /\ \A i \in 1..Len(log) :
          IsBegin(log[i]) =>
              /\ NumChildBlocks(log, i + 1, Match(log, i)) = numChildren(log[i].id)
              /\ PayloadSizes(log, i + 1, Match(log, i)) = DeclaredSizes(log[i].id)

\* C8 (decode order): for a key built from a well-formed call sequence that
\* matches the dictionary, toShaderInfo completes and the ids of the entries
\* it adds, in order, are the ids passed to beginBlock, in order (pre-order).
C8_DecodeOrder ==
    (lastCall.op = "toShaderInfo" /\ calls.ok /\ MatchesSchema(calls.log)) =>
        /\ ret.info.status = "ok"
        /\ ret.info.entries = BeginIDs(calls.log)

\* C8 witness: the key of block 2 with child 3 has been decoded as 2, 3.
C8_Witness ==
    /\ lastCall.op = "toShaderInfo"
    /\ calls.ok
    /\ MatchesSchema(calls.log)
    /\ KeyBytes(key, builder) = << 2, 7, 3, 4, 1, 2, 9 >>
    /\ ret.info.entries = << 2, 3 >>

\* C9 as stated: after a completed walk the mark is absent exactly when one
\* block was visited and it is the depth/stencil-only marker.
C9_AsStated ==
    (lastCall.op = "toShaderInfo" /\ ret.info.status = "ok") =>
        (~ret.info.writesColor <=> ret.info.entries = << kDepthStencilOnlyDraw >>)

\* C9 (writes-color marking, amended): after a completed walk into a new
\* SkShaderInfo, the mark is present exactly when some visited block's id
\* is not the depth/stencil-only marker; it is absent when every visited
\* block is the marker, also for no block and for several.
C9_WritesColor ==
    (lastCall.op = "toShaderInfo" /\ ret.info.status = "ok") =>
        (ret.info.writesColor <=>
            \E i \in 1..Len(ret.info.entries) :
                ret.info.entries[i] # kDepthStencilOnlyDraw)

\* C9 witness: two marker blocks have been visited and the mark is absent.
C9_Witness ==
    /\ lastCall.op = "toShaderInfo"
    /\ ret.info.status = "ok"
    /\ ret.info.entries = << kDepthStencilOnlyDraw, kDepthStencilOnlyDraw >>
    /\ ~ret.info.writesColor

\* the assertions that the builder is not locked
NotLockedAssertions ==
    { "beginBlock:59", "endBlock:89", "addBytes:141", "lockAsKey:152",
      "makeInvalid:164" }

C10_Released ==
    /\ lastCall.op = "destroy"
    /\ ~key.alive
    /\ ~isLocked(builder)
    /\ Running

\* C11 (finalize effect): lockAsKey on an unlocked builder returns a key that
\* views exactly the buffer and leaves the flag true and the frame stack
\* empty, whatever the builder was before; on a valid builder with an empty
\* stack (and on an invalid one) no byte of the buffer changes, on an
\* unbalanced one the buffer is the error block: it is never cleared.
C11_FinalizeEffect ==
    [][ (Running /\ ~isLocked(builder) /\ lastCall'.op = "lockAsKey") =>
          /\ ~Aborted(builder')
          /\ key'.alive
          /\ KeyBytes(key', builder') = builder'.fData
          /\ builder'.fIsValid
          /\ builder'.fStack = << >>
          /\ builder.fStack = << >> => builder'.fData = builder.fData
          /\ builder.fStack # << >> => builder'.fData = ErrorBlock ]_vars

\* C11 witness: lockAsKey on a builder latched invalid by a misplaced
\* addBytes has returned the error key and left the builder valid, its
\* buffer still the error block.
C11_Witness ==
    /\ lastCall.op = "lockAsKey"
    /\ cause = "line122"
    /\ key.alive
    /\ builder.fIsValid
    /\ builder.fStack = << >>
    /\ builder.fData = ErrorBlock

\* lockAsKey on a valid builder holding a closed block has left its bytes
C11_ValidKept ==
    /\ lastCall.op = "lockAsKey"
    /\ cause = "none"
    /\ key.alive
    /\ builder.fData = << 3, 4, 1, 2 >>
    /\ KeyBytes(key, builder) = << 3, 4, 1, 2 >>

\* every block of the balanced log has the child count its entry declares
DeclaredChildCounts(log) ==
    \A i \in 1..Len(log) :
        IsBegin(log[i]) =>
            NumChildBlocks(log, i + 1, Match(log, i)) = numChildren(log[i].id)

\* C12 as stated (child-count well-formedness): in every key finalized from
\* a sequence of building calls that latched nothing invalid and failed no
\* assertion, each block has as many immediate child blocks as the
\* dictionary entry of its id declares.
C12_ChildCount ==
    (Running /\ key.alive /\ calls.ok) => DeclaredChildCounts(calls.log)

\* C12 failing input: with SK_DEBUG, block 2 (one child declared) has been
\* closed with its payload byte and no child, and finalized.
C12_Witness ==
    /\ SK_DEBUG
    /\ Running
    /\ key.alive
    /\ calls.ok
    /\ cause = "none"
    /\ numChildren(2) = 1
    /\ KeyBytes(key, builder) = << 2, 3, 9 >>

\* C13 (children before payload, SK_DEBUG): a beginBlock inside a block that
\* has been given a payload field fails the assertion of line 48 and changes
\* nothing; one inside a block with no payload field yet is accepted; an
\* endBlock of a child whose parent has a payload field fails an assertion;
\* so every open frame below the top one has a fields-written counter of 0.
C13_ChildrenFirst ==
    [][ (SK_DEBUG /\ Open /\ builder.fStack # << >>) =>
          LET depth == Len(builder.fStack)
              top == builder.fStack[depth]
          IN  /\ (lastCall'.op = "beginBlock"
                   /\ lastCall'.id \in 0..maxCodeSnippetID) =>
                    IF top.fCurDataPayloadEntry > 0
                    THEN /\ builder'.fault = "beginBlock:48"
                         /\ builder'.fData = builder.fData
                         /\ builder'.fStack = builder.fStack
                    ELSE /\ ~Aborted(builder')
                         /\ Len(builder'.fStack) = depth + 1
              /\ (lastCall'.op = "endBlock" /\ depth >= 2) =>
                    IF builder.fStack[depth - 1].fCurDataPayloadEntry > 0
                    THEN Aborted(builder')
                    ELSE builder'.fault # "endBlock:110"
              /\ \A i \in 1..(Len(builder'.fStack) - 1) :
                    builder'.fStack[i].fCurDataPayloadEntry = 0 ]_vars

\* C13 witness: block 2 has been given its payload byte and a beginBlock
\* inside it has failed the assertion of line 48.
C13_Witness ==
    /\ SK_DEBUG
    /\ builder.fault = "beginBlock:48"
    /\ lastCall.op = "beginBlock"
    /\ builder.fData = << 2, 0, 9 >>
    /\ Back(builder.fStack).fCurDataPayloadEntry = 1

\* a child has been ended inside a parent with no payload field yet
C13_ChildEnded ==
    /\ SK_DEBUG
    /\ Running
    /\ lastCall.op = "endBlock"
    /\ builder.fData = << 2, 0, 3, 4, 1, 2 >>
    /\ Len(builder.fStack) = 1
    /\ Back(builder.fStack).fCurDataPayloadEntry = 0

\* every block of the balanced log has the payload fields its entry declares,
\* in the declared order and with the declared byte counts
DeclaredPayloads(log) ==
    \A i \in 1..Len(log) :
        IsBegin(log[i]) =>
            PayloadSizes(log, i + 1, Match(log, i)) = DeclaredSizes(log[i].id)

\* C14 (payload shape, SK_DEBUG): an addBytes on an open block whose next
\* declared payload field is a byte field of that count appends the bytes and
\* advances the fields-written counter by one, any other addBytes fails the
\* assertion of line 132 and changes nothing; an endBlock with a counter other
\* than the declared field count fails the assertion of line 87; so every
\* block of a key built without a failed check has exactly the declared
\* payload fields, in order, with the declared byte counts.
C14_PayloadShape ==
    [][ /\ (SK_DEBUG /\ Open /\ builder.fStack # << >>) =>
              LET top == Back(builder.fStack)
                  declared == dataPayloadExpectations(top.fCodeSnippetID)
                  cur == top.fCurDataPayloadEntry
              IN  /\ lastCall'.op = "addBytes" =>
                        IF /\ cur < Len(declared)
                           /\ declared[cur + 1].fType = "kByte"
                           /\ declared[cur + 1].fCount = Len(lastCall'.data)
                        THEN /\ ~Aborted(builder')
                             /\ builder'.fData = builder.fData \o lastCall'.data
                             /\ Len(builder'.fStack) = Len(builder.fStack)
                             /\ Back(builder'.fStack).fCurDataPayloadEntry = cur + 1
                        ELSE /\ builder'.fault = "addBytes:132"
                             /\ builder'.fData = builder.fData
                             /\ builder'.fStack = builder.fStack
                  /\ lastCall'.op = "endBlock" =>
                        IF cur = Len(declared)
                        THEN /\ builder'.fault # "endBlock:87"
                             /\ builder'.fStack # builder.fStack
                        ELSE /\ builder'.fault = "endBlock:87"
                             /\ builder'.fData = builder.fData
                             /\ builder'.fStack = builder.fStack
        /\ (SK_DEBUG /\ ~Aborted(builder') /\ key'.alive /\ calls'.ok) =>
              DeclaredPayloads(calls'.log) ]_vars

\* C14 witness: block 3 has been closed with its one declared field of two
\* bytes, no check having failed.
C14_Witness ==
    /\ SK_DEBUG
    /\ Running
    /\ lastCall.op = "endBlock"
    /\ calls.ok
    /\ builder.fStack = << >>
    /\ builder.fData = << 3, 4, 1, 2 >>
    /\ DeclaredSizes(3) = << 2 >>

\* an addBytes of the wrong count has failed the assertion of line 132
C14_WrongCount ==
    /\ builder.fault = "addBytes:132"
    /\ lastCall.op = "addBytes"
    /\ Len(lastCall.data) = 1
    /\ Back(builder.fStack).fCodeSnippetID = 3

\* an endBlock of a block short of a field has failed the assertion of line 87
C14_MissingField ==
    /\ builder.fault = "endBlock:87"
    /\ lastCall.op = "endBlock"
    /\ builder.fData = << 3, 0 >>

\* the four conditions of checkReset
IsReset(b) ==
    /\ ~isLocked(b)
    /\ sizeInBytes(b) = 0
    /\ b.fIsValid
    /\ b.fStack = << >>

\* C15 (reset on reuse): a builder never used, and one whose key has been
\* destroyed, is not locked, has an empty buffer, a true validity flag and an
\* empty frame stack, and no assertion of unlock or checkReset fails; the key
\* of a cycle has the bytes of the key a new builder makes of the same calls.
C15_ResetOnReuse ==
    /\ builder.fault \notin { "unlock", "checkReset:23", "checkReset:24",
                              "checkReset:25", "checkReset:26" }
    /\ (Running /\ ~key.alive /\ lastCall.op \in { "none", "destroy" }) =>
          /\ IsReset(builder)
          /\ checkReset(builder) = builder
    /\ (Running /\ key.alive /\ twinKey.alive) =>
          KeyBytes(key, builder) = KeyBytes(twinKey, twin)

\* C15 witness: the error key of a cycle has been destroyed and the builder
\* is in the reset state.
C15_Witness ==
    /\ Running
    /\ ~key.alive
    /\ lastCall.op = "destroy"
    /\ lastCall.data = ErrorBlock
    /\ IsReset(builder)

\* the builder's key and the key of the builder constructed for the cycle are
\* alive with the same bytes
C15_SameAsNew ==
    /\ Running
    /\ key.alive
    /\ twinKey.alive
    /\ builder.fLocked = 1
    /\ KeyBytes(key, builder) = << 3, 4, 1, 2 >>
    /\ KeyBytes(twinKey, twin) = << 3, 4, 1, 2 >>

\* stepping by the stored block size from the offset, every header lies in the
\* key with 2 <= blockSize <= 255 and the block inside the key, and the steps
\* end exactly at the key's length
RECURSIVE FramedFrom(_, _)
FramedFrom(keyBytes, offset) ==
    \/ offset = Len(keyBytes)
    \/ /\ offset + kBlockHeaderSizeInBytes <= Len(keyBytes)
       /\ keyBytes[offset + 2] >= kBlockHeaderSizeInBytes
       /\ keyBytes[offset + 2] <= kMaxBlockSize
       /\ offset + keyBytes[offset + 2] <= Len(keyBytes)
       /\ FramedFrom(keyBytes, offset + keyBytes[offset + 2])

\* C16 (decode termination and framing), as stated: for every key lockAsKey
\* returns, the walks of toShaderInfo and of dump run to their end reading
\* every header inside the key, and the stored block sizes step from offset 0
\* exactly to the key's length.
C16_AsStated ==
    /\ (Running /\ key.alive) => FramedFrom(KeyBytes(key, builder), 0)
    /\ lastCall.op = "toShaderInfo" => ret.info.status = "ok"
    /\ lastCall.op = "dump" => ret.dump.status = "ok"

\* C16 witness: the builder has returned the key [2, 3, 9], block 2 without
\* its child, and dump has read a header past the key's end.
C16_Witness ==
    /\ SK_DEBUG
    /\ Running
    /\ lastCall.op = "dump"
    /\ cause = "none"
    /\ KeyBytes(key, builder) = << 2, 3, 9 >>
    /\ ret.dump.status = "outOfBounds"

\* the part of C16 about the top-level steps alone holds of every key
C16_TopLevelFraming ==
    (Running /\ key.alive) => FramedFrom(KeyBytes(key, builder), 0)

\* the empty key has been walked by toShaderInfo
C16_EmptyKeyWalked ==
    /\ lastCall.op = "toShaderInfo"
    /\ KeyBytes(key, builder) = << >>
    /\ ret.info.status = "ok"

\* the lines the top-level walk prints when a block without an entry is
\* reported as unknown and stepped over by its stored size
RECURSIVE StatedLinesFrom(_, _)
StatedLinesFrom(keyBytes, offset) ==
    IF ~(offset < Len(keyBytes)) THEN << >>
    ELSE LET id == keyBytes[offset + 1]
             blockSize == keyBytes[offset + 2]
             known == CHOOSE g \in NullEntryOutcomes : TRUE
         IN  (IF getEntry(id).null
              THEN << Line("unknown", 0, blockSize, 0) >>
              ELSE dump_block(keyBytes, offset, 0, known, NewDump).d.out)
             \o StatedLinesFrom(keyBytes, offset + blockSize)

\* C17 (unknown block in dump), as stated: when the id at a block header has
\* no entry, dump prints the unknown-block line for it, prints nothing read
\* from an entry for it, and goes on with the next sibling to the key's end.
C17_AsStated ==
    lastCall.op = "dumpRaw" =>
        /\ ret.dump.status = "ok"
        /\ ret.dump.out = << Line("key", 0, Len(lastCall.data), 0) >>
                              \o StatedLinesFrom(lastCall.data, 0)

\* C17 witness: the key [5, 2], of an id without an entry, has been dumped;
\* the unknown-block line was printed and the walk stopped at the use of the
\* null entry.
C17_Witness ==
    /\ lastCall.op = "dumpRaw"
    /\ lastCall.data = << maxCodeSnippetID + 1, 2 >>
    /\ getEntry(maxCodeSnippetID + 1).null
    /\ ret.dump.status = "nullEntry"
    /\ ret.dump.out = << Line("key", 0, 2, 0), Line("unknown", 0, 2, 0) >>

\* the other outcome: the walk went on and printed a block line with a name
\* read through the null entry
C17_NameOfNoEntry ==
    /\ lastCall.op = "dumpRaw"
    /\ lastCall.data = << maxCodeSnippetID + 1, 2 >>
    /\ ret.dump.status = "ok"
    /\ ret.dump.out = << Line("key", 0, 2, 0), Line("unknown", 0, 2, 0),
                          Line("block", 0, -1, 2) >>

\* the state makeInvalid leaves: flag false, no open frame, the error block
Poisoned(b) ==
    /\ ~b.fIsValid
    /\ b.fStack = << >>
    /\ b.fData = ErrorBlock

\* C18 (invalid-state invariant): whenever the validity flag is false the
\* frame stack is empty and the buffer is the two bytes [kError, 2]; and
\* makeInvalid, entered from any state a call can enter it from, whatever the
\* buffer and the stack hold, leaves exactly that state.
C18_InvalidState ==
    /\ ~builder.fIsValid => Poisoned(builder)
    /\ Open => /\ ~Aborted(makeInvalid(builder))
               /\ Poisoned(makeInvalid(builder))

\* C18 witness: an endBlock of a block of 256 bytes has latched the flag; the
\* 256 bytes are gone and the buffer is the error block.
C18_Witness ==
    /\ Running
    /\ lastCall.op = "endBlock"
    /\ cause = "line99"
    /\ Poisoned(builder)
    /\ ErrorBlock = << kError, 2 >>

\* C19 (open-frame header invariant): while the builder is valid, the header
\* offsets of the open frames increase strictly from the bottom of the stack
\* to the top, each header lies in the buffer, the byte at the offset is the
\* frame's snippet id and the next byte is still the placeholder 0; the
\* assertions of lines 93 and 94 never fail.
C19_OpenFrameHeaders ==
    /\ builder.fault \notin { "endBlock:93", "endBlock:94" }
    /\ builder.fIsValid =>
          \A i \in 1..Len(builder.fStack) :
              LET frame == builder.fStack[i]
                  headerOffset == frame.fHeaderOffset
              IN  /\ headerOffset >= 0
                  /\ headerOffset + kBlockHeaderSizeInBytes <= Len(builder.fData)
                  /\ builder.fData[headerOffset + 1] = frame.fCodeSnippetID
                  /\ builder.fData[headerOffset + 2] = 0
                  /\ i > 1 => builder.fStack[i - 1].fHeaderOffset < headerOffset

\* C19 witness: block 3 is open inside block 2 and has its payload; the two
\* frames record the offsets 0 and 2 of their headers.
C19_Witness ==
    /\ Running
    /\ builder.fIsValid
    /\ Len(builder.fStack) = 2
    /\ builder.fStack[1].fHeaderOffset = 0
    /\ builder.fStack[2].fHeaderOffset = 2
    /\ builder.fData = << 2, 0, 3, 0, 1, 2 >>

\* a block has been closed by a debug build's endBlock, past the assertions of
\* lines 93 and 94, in a cycle begun after a key was destroyed
C19_ClosedAfterChecks ==
    /\ SK_DEBUG
    /\ Running
    /\ lastCall.op = "endBlock"
    /\ builder.fData = << 2, 0, 3, 4, 1, 2 >>

\* the assertions inside makeInvalid and inside its beginBlock/endBlock pair
\* that an unlocked builder could fail
PoisonAssertions ==
    { "makeInvalid:163", "makeInvalid:171", "beginBlock:48", "beginBlock:65",
      "endBlock:87", "endBlock:93", "endBlock:94", "endBlock:110" }

\* C20 (poison routine preconditions): a beginBlock, addBytes, endBlock or
\* lockAsKey on an unlocked builder enters makeInvalid at most once, and only
\* with the validity flag true; the entry runs to its end without a failed
\* assertion and without a second entry, leaving the error block; an invalid
\* builder, lockAsKey included, does not enter it; so between two resets an
\* unlocked builder has entered it at most once.
C20_PoisonOnce ==
    [][ (Running /\ ~isLocked(builder)
          /\ lastCall'.op \in BuildingOps \cup { "lockAsKey" }) =>
          LET entries == builder'.nMakeInvalid - builder.nMakeInvalid
          IN  /\ entries \in { 0, 1 }
              /\ ~builder.fIsValid => entries = 0
              /\ entries = 1 =>
                    /\ builder.fIsValid
                    /\ ~Aborted(builder')
                    /\ builder'.fData = ErrorBlock
                    /\ builder'.fStack = << >>
                    /\ builder'.fIsValid = (lastCall'.op = "lockAsKey")
              /\ Aborted(builder') =>
                    (entries = 0 /\ builder'.fault \notin PoisonAssertions
                                                        \ { "beginBlock:48", "endBlock:87" })
              /\ ~isLocked(builder') => builder'.nMakeInvalid <= 1 ]_vars

\* C20 witness: a beginBlock with an id above the dictionary's has entered
\* makeInvalid, and the lockAsKey on the invalid builder has returned the
\* error key without a second entry.
C20_Witness ==
    /\ Running
    /\ lastCall.op = "lockAsKey"
    /\ cause = "line41"
    /\ builder.nMakeInvalid = 1
    /\ key.alive
    /\ KeyBytes(key, builder) = ErrorBlock

\* lockAsKey with a block open has entered makeInvalid itself, once
C20_EnteredByLockAsKey ==
    /\ Running
    /\ lastCall.op = "lockAsKey"
    /\ cause = "line149"
    /\ builder.nMakeInvalid = 1

====
